---- MODULE Spec2Model ----
(***************************************************************************)
(* Model of project/utilities/virtual_com_port.py: class VirtualCOMPort.   *)
(*                                                                         *)
(* One client object (the class is a Singleton) is shared by the threads   *)
(* in Callers.  Thread Main is the interpreter's main thread: it owns the  *)
(* link lifecycle (connect / open_port / close_port) and is the thread in  *)
(* which Python raises KeyboardInterrupt.  Every thread may run the        *)
(* command operations, which go through transmit and receive.              *)
(*                                                                         *)
(* Hex strings are sequences of hex digits (0..15); byte strings are       *)
(* sequences of bytes (0..255).  A byte in the transport's input buffer    *)
(* is stored as owner * 256 + value, where owner is the caller whose       *)
(* frame the device was answering (a recording transport).                 *)
(***************************************************************************)
EXTENDS Integers, Sequences, FiniteSets, TLC

Callers == {1, 2}
Main == 1

\* bounds of the model
MaxAcquire == 12    \* the count of serial.Serial() calls of one open_port call saturates here
MaxInWaiting == 56  \* capacity of the transport's input buffer, in bytes
MaxLifecycle == 2   \* calls of connect, open_port and close_port in a run
MaxCommands == 2    \* calls of commands in a run, over all threads
MaxPayload == 260   \* bytes of the longest payload that checksum is applied to

\* program constants
MaxAttempts == 10
NoPort == "None"
PortNames == {NoPort, "COM3"}

VARIABLES
    open,       \* self.open
    portname,   \* self.portname
    port,       \* self.port: [is_open, src], src = the call that created the handle
    lock,       \* VirtualCOMPort._TaskLock: the thread holding it, 0 when free
    inbuf,      \* bytes waiting in the transport's input buffer (port.in_waiting = Len)
    wire,       \* frames written to the transport that the device has not handled yet
    pc,         \* position of each thread
    op,         \* the public operation each thread is running
    via,        \* Main: how open_port / close_port was entered
    attempt,    \* Main: open_port's local attempt
    acq,        \* Main: serial.Serial() calls made by the running open_port call
    acqd,       \* Main: the running call assigned self.port
    stage,      \* set_system_config: 1 = inside set_epoch_time, 2 = own frame
    arg,        \* set_system_config: the values given by the caller
    cmd,        \* hex string the running command passes to transmit
    size,       \* byte count the running command passes to receive
    txr,        \* value returned by the command's transmit call
    rx,         \* value returned by the command's receive call
    xch,        \* set_system_config: the exchange that set_epoch_time made
    calls,      \* the calls made so far: [life, cmds]
    ret,        \* outcome of the finished operation
    retv        \* the values carried by the outcome

linkvars == <<open, portname, port>>
mainvars == <<via, attempt, acq, acqd>>
cmdvars == <<stage, arg, cmd, size, txr, rx, xch>>
iovars == <<lock, inbuf, wire>>
vars == <<open, portname, port, lock, inbuf, wire, pc, op, via, attempt, acq,
          acqd, stage, arg, cmd, size, txr, rx, xch, calls, ret, retv>>

Min(a, b) == IF a < b THEN a ELSE b

Take(s, n) == SubSeq(s, 1, Min(n, Len(s)))

Drop(s, n) == SubSeq(s, Min(n, Len(s)) + 1, Len(s))

----------------------------------------------------------------------------
\* FrameCodec: hex strings, checksum, little-endian integers

RECURSIVE Pow256(_)
Pow256(n) == IF n = 0 THEN 1 ELSE 256 * Pow256(n - 1)

\* Python slice s[a:b], 0-based, clipped to the sequence
Slice(s, a, b) == SubSeq(s, Min(a, Len(s)) + 1, Min(b, Len(s)))

\* int(h, 16) of a hex string of one or two digits
IntHex(h) == IF Len(h) = 0 THEN 0 ELSE IF Len(h) = 1 THEN h[1] ELSE 16 * h[1] + h[2]

\* bytes.hex()
Hex(bs) == [i \in 1..(2 * Len(bs)) |->
              IF i % 2 = 1 THEN bs[(i + 1) \div 2] \div 16 ELSE bs[i \div 2] % 16]

\* bytearray.fromhex() of a hex string of even length
FromHex(h) == [i \in 1..(Len(h) \div 2) |-> 16 * h[2 * i - 1] + h[2 * i]]

\* int.to_bytes(n, "little") raises OverflowError when the value needs more bytes
OverflowError == <<-1>>

Fits(v, n) == v >= 0 /\ (n >= 4 \/ v < Pow256(n))

ToBytesLE(v, n) == IF Fits(v, n)
                     THEN [i \in 1..n |-> (v \div Pow256(i - 1)) % 256]
                     ELSE OverflowError

\* int.from_bytes(bs, "little") of at most 4 bytes; the result is kept as two
\* 16-bit halves <<high, low>>, its value being high * 65536 + low
RECURSIVE Word(_)
Word(bs) == IF bs = <<>> THEN 0 ELSE bs[1] + 256 * Word(Tail(bs))

FromBytesLE(bs) == <<Word(Slice(bs, 2, 4)), Word(Slice(bs, 0, 2))>>

\* checksum, lines 87-89: the sum of the two-digit groups a..b-1 of the hex
\* string, group k being cmd[2k : 2k + 2]; the range is summed by halves
RECURSIVE SumHexFrom(_, _, _)
SumHexFrom(h, a, b) ==
    IF a >= b THEN 0
    ELSE IF b = a + 1 THEN IntHex(Slice(h, 2 * a, 2 * a + 2))
    ELSE SumHexFrom(h, a, (a + b) \div 2) + SumHexFrom(h, (a + b) \div 2, b)

\* the loop over range(0, len(cmd), 2)
SumHex(h) == SumHexFrom(h, 0, (Len(h) + 1) \div 2)

\* checksum, line 91
checksum(h) == IF ToBytesLE(SumHex(h), 2) = OverflowError
                 THEN OverflowError
                 ELSE Hex(ToBytesLE(SumHex(h), 2))

\* get_config_hex_string, lines 176-180
RECURSIVE ConfigHexFrom(_, _)
ConfigHexFrom(values, i) ==
    IF i > Len(values) THEN <<>>
    ELSE Hex(ToBytesLE(values[i], 4)) \o ConfigHexFrom(values, i + 1)

get_config_hex_string(values) == ConfigHexFrom(values, 1)

\* command headers and response lengths, lines 189-268
HdrGetConfig == <<13, 13, 0, 3, 0, 7, 0, 0, 0, 0>>
HdrSetConfig == <<13, 13, 0, 3, 2, 11, 0, 0, 0, 1>>
HdrGetEpoch == <<13, 13, 0, 4, 0, 7, 0, 0, 0, 0>>
HdrSetEpoch == <<13, 13, 0, 4, 0, 11, 0, 0, 0, 1>>
HdrFormat == <<13, 13, 0, 5, 0, 6, 0, 0>>
HdrLogging == <<13, 13, 0, 6, 0, 7, 0, 0>>
HdrData == <<13, 13, 0, 7, 0, 6, 0, 0>>

Commands == {"get_system_config", "set_system_config", "get_epoch_time",
             "set_epoch_time", "format_sd_card", "set_logging_state", "request_data"}

\* the inputs of the commands: the clock read by set_epoch_time, the values
\* given to set_system_config, the state given to set_logging_state
Epochs == {1793561026}
ConfigInputs == {<<1, 2, 3, 4, 5, 6, 7, 8, 9>>}

\* f"{int(state):02}"
Dec2(state) == IF state THEN <<0, 1>> ELSE <<0, 0>>

SetEpochCmd(epoch) == HdrSetEpoch \o Hex(ToBytesLE(epoch, 4))

\* the hex string a command transmits first and the length it receives first
FirstCmd(c, epoch, values, state) ==
    CASE c = "get_system_config" -> HdrGetConfig
      [] c = "set_system_config" -> SetEpochCmd(epoch)
      [] c = "get_epoch_time" -> HdrGetEpoch
      [] c = "set_epoch_time" -> SetEpochCmd(epoch)
      [] c = "format_sd_card" -> HdrFormat
      [] c = "set_logging_state" -> HdrLogging \o Dec2(state)
      [] c = "request_data" -> HdrData

FirstSize(c) ==
    CASE c = "get_system_config" -> 42
      [] c = "set_system_config" -> 10
      [] c = "get_epoch_time" -> 10
      [] c = "set_epoch_time" -> 10
      [] c = "format_sd_card" -> 7
      [] c = "set_logging_state" -> 7
      [] c = "request_data" -> 46

----------------------------------------------------------------------------
\* __init__: serial.Serial(portname, ...) opens the port when a name is given
\* and returns an unopened handle for None; self.open starts False.
Init ==
    /\ portname \in PortNames
    /\ port = [is_open |-> portname # NoPort, src |-> "init"]
    /\ open = FALSE
    /\ lock = 0
    /\ inbuf = <<>>
    /\ wire = <<>>
    /\ pc = [t \in Callers |-> "idle"]
    /\ op = [t \in Callers |-> "none"]
    /\ via = "none"
    /\ attempt = 0
    /\ acq = 0
    /\ acqd = FALSE
    /\ stage = [t \in Callers |-> 0]
    /\ arg = [t \in Callers |-> <<>>]
    /\ cmd = [t \in Callers |-> <<>>]
    /\ size = [t \in Callers |-> 0]
    /\ txr = [t \in Callers |-> 0]
    /\ rx = [t \in Callers |-> <<>>]
    /\ xch = [t \in Callers |-> <<>>]
    /\ calls = [life |-> 0, cmds |-> 0]
    /\ ret = [t \in Callers |-> "none"]
    /\ retv = [t \in Callers |-> <<>>]

\* a thread calls a public operation
Begin(t, o) ==
    /\ pc[t] = "idle"
    /\ IF o \in Commands
         THEN /\ calls.cmds < MaxCommands
              /\ calls' = [calls EXCEPT !.cmds = calls.cmds + 1]
         ELSE /\ calls.life < MaxLifecycle
              /\ calls' = [calls EXCEPT !.life = calls.life + 1]
    /\ op' = [op EXCEPT ![t] = o]

\* a public operation returns to its caller
Finish(t, r, v) ==
    /\ pc' = [pc EXCEPT ![t] = "done"]
    /\ ret' = [ret EXCEPT ![t] = r]
    /\ retv' = [retv EXCEPT ![t] = v]

----------------------------------------------------------------------------
\* LinkManager: connect, open_port, close_port

\* what serial.Serial(portname, ...) can do: without a name it returns a
\* handle that is not open; with a name it opens the port or raises
\* SerialException (an OSError)
SerialOutcomes(name) == IF name = NoPort THEN {"notopen"} ELSE {"opened", "raise"}

\* connect without the test of line 64
CallConnectNoTest ==
    /\ Begin(Main, "connect")
    /\ IF portname = NoPort
         THEN Finish(Main, "False", <<>>) /\ UNCHANGED mainvars
         ELSE /\ pc' = [pc EXCEPT ![Main] = "op_loop"]
              /\ via' = "connect"
              /\ attempt' = 1
              /\ acq' = 0
              /\ acqd' = FALSE
              /\ UNCHANGED <<ret, retv>>
    /\ UNCHANGED <<linkvars, iovars, cmdvars>>

\* connect, lines 64-71
CallConnect ==
    /\ Begin(Main, "connect")
    /\ IF open
         THEN Finish(Main, "True", <<>>) /\ UNCHANGED mainvars
         ELSE IF portname = NoPort
                THEN Finish(Main, "False", <<>>) /\ UNCHANGED mainvars
                ELSE /\ pc' = [pc EXCEPT ![Main] = "op_loop"]
                     /\ via' = "connect"
                     /\ attempt' = 1
                     /\ acq' = 0
                     /\ acqd' = FALSE
                     /\ UNCHANGED <<ret, retv>>
    /\ UNCHANGED <<linkvars, iovars, cmdvars>>

\* open_port called directly, line 37
CallOpenPort ==
    /\ Begin(Main, "open_port")
    /\ pc' = [pc EXCEPT ![Main] = "op_loop"]
    /\ via' = "direct"
    /\ attempt' = 1
    /\ acq' = 0
    /\ acqd' = FALSE
    /\ UNCHANGED <<linkvars, iovars, cmdvars, ret, retv>>

\* open_port, line 38: the loop test; falling out of the loop ends the
\* function with no return statement, so the caller gets None
OpLoop ==
    /\ pc[Main] = "op_loop"
    /\ IF ~open /\ attempt <= MaxAttempts
         THEN pc' = [pc EXCEPT ![Main] = "op_acquire"] /\ UNCHANGED <<ret, retv>>
         ELSE Finish(Main, "None", <<>>)
    /\ UNCHANGED <<linkvars, iovars, cmdvars, op, calls, mainvars>>

\* open_port, lines 41, 46-47: create the handle; OSError counts the attempt
OpAcquire ==
    /\ pc[Main] = "op_acquire"
    /\ acq' = Min(acq + 1, MaxAcquire)
    /\ \E o \in SerialOutcomes(portname) :
         IF o = "raise"
           THEN /\ attempt' = attempt + 1
                /\ pc' = [pc EXCEPT ![Main] = "op_sleep"]
                /\ UNCHANGED <<port, inbuf, acqd>>
           ELSE /\ port' = [is_open |-> (o = "opened"), src |-> "open_port"]
                /\ inbuf' = IF o = "opened" THEN <<>> ELSE inbuf
                /\ acqd' = TRUE
                /\ pc' = [pc EXCEPT ![Main] = "op_mark"]
                /\ UNCHANGED attempt
    /\ UNCHANGED <<open, portname, lock, wire, cmdvars, op, calls, via, ret, retv>>

\* open_port, lines 42-43
OpMark ==
    /\ pc[Main] = "op_mark"
    /\ open' = IF port.is_open THEN TRUE ELSE open
    /\ pc' = [pc EXCEPT ![Main] = "op_loop"]
    /\ UNCHANGED <<portname, port, iovars, cmdvars, op, calls, mainvars, ret, retv>>

\* open_port, line 48: time.sleep(1)
OpSleep ==
    /\ pc[Main] = "op_sleep"
    /\ pc' = [pc EXCEPT ![Main] = "op_loop"]
    /\ UNCHANGED <<linkvars, iovars, cmdvars, op, calls, mainvars, ret, retv>>

InOpenPort == pc[Main] \in {"op_loop", "op_acquire", "op_mark", "op_sleep"}

\* KeyboardInterrupt raised in the main thread while open_port runs.
\* connect, lines 73-75, catches it and calls close_port (line 52 is
\* evaluated here); a direct open_port call lets it propagate.
Interrupt ==
    /\ InOpenPort
    /\ IF via = "connect"
         THEN IF open
                THEN /\ pc' = [pc EXCEPT ![Main] = "cp_close"]
                     /\ via' = "handler"
                     /\ UNCHANGED <<ret, retv>>
                ELSE Finish(Main, "False", <<"interrupted">>) /\ UNCHANGED via
         ELSE Finish(Main, "KeyboardInterrupt", <<"interrupted">>) /\ UNCHANGED via
    /\ UNCHANGED <<linkvars, iovars, cmdvars, op, calls, attempt, acq, acqd>>

\* close_port called directly, line 52
CallClosePort ==
    /\ Begin(Main, "close_port")
    /\ acq' = 0
    /\ acqd' = FALSE
    /\ attempt' = 0
    /\ IF open
         THEN /\ pc' = [pc EXCEPT ![Main] = "cp_close"]
              /\ via' = "close"
              /\ UNCHANGED <<ret, retv>>
         ELSE Finish(Main, "None", <<"noop">>) /\ via' = "none"
    /\ UNCHANGED <<linkvars, iovars, cmdvars>>

\* close_port, line 53: self.port.close() releases the handle and with it
\* the bytes waiting in its input buffer
CpClose ==
    /\ pc[Main] = "cp_close"
    /\ port' = [port EXCEPT !.is_open = FALSE]
    /\ inbuf' = <<>>
    /\ pc' = [pc EXCEPT ![Main] = "cp_flag"]
    /\ UNCHANGED <<open, portname, lock, wire, cmdvars, op, calls, mainvars, ret, retv>>

\* close_port without the assignment of line 54
CpFlagKept ==
    /\ pc[Main] = "cp_flag"
    /\ UNCHANGED open
    /\ IF via = "handler"
         THEN Finish(Main, "False", <<"interrupted">>)
         ELSE Finish(Main, "None", <<"closed">>)
    /\ UNCHANGED <<portname, port, iovars, cmdvars, op, calls, mainvars>>

\* close_port, lines 54-55, and the return of the caller (connect line 75)
CpFlag ==
    /\ pc[Main] = "cp_flag"
    /\ open' = FALSE
    /\ IF via = "handler"
         THEN Finish(Main, "False", <<"interrupted">>)
         ELSE Finish(Main, "None", <<"closed">>)
    /\ UNCHANGED <<portname, port, iovars, cmdvars, op, calls, mainvars>>

----------------------------------------------------------------------------
\* the transport and the device behind it

Own(x) == x \div 256

Val(x) == x % 256

Vals(bs) == [i \in 1..Len(bs) |-> Val(bs[i])]

Tag(t, bs) == [i \in 1..Len(bs) |-> 256 * t + bs[i]]

\* the response length the protocol fixes for a request frame, by its
\* opcode byte and length byte
RespLen(data) ==
    CASE data[2] = 3 /\ data[3] = 7 -> 42
      [] data[2] = 3 /\ data[3] # 7 -> 42
      [] data[2] = 4 -> 10
      [] data[2] = 5 -> 7
      [] data[2] = 6 -> 7
      [] data[2] = 7 -> 46

\* the values the device may report: every 32-bit word i of a response
\* carries i * v, a one-byte payload carries v
DevVals == {0, 1}

RECURSIVE Sum(_)
Sum(bs) == IF bs = <<>> THEN 0 ELSE bs[1] + Sum(Tail(bs))

DevPayload(n, v) ==
    IF n < 4 THEN [i \in 1..n |-> v]
    ELSE [i \in 1..n |-> IF i % 4 = 1 THEN ((i + 3) \div 4) * v ELSE 0]

\* a response: 4 header bytes, the payload, 2 checksum bytes
Response(data, v) ==
    LET n == RespLen(data)
        body == <<221, data[2], n, 1>> \o DevPayload(n - 6, v)
    IN body \o ToBytesLE(Sum(body) % 65536, 2)

\* the device answers the oldest frame in flight; a closed port receives
\* nothing, a full input buffer drops what does not fit
DeviceReply(v) ==
    /\ wire # <<>>
    /\ inbuf' = IF port.is_open
                  THEN Take(inbuf \o Tag(wire[1].own, Response(wire[1].data, v)), MaxInWaiting)
                  ELSE inbuf
    /\ wire' = Tail(wire)
    /\ UNCHANGED <<linkvars, lock, pc, op, calls, mainvars, cmdvars, ret, retv>>

\* the device does not answer the oldest frame in flight
DeviceSilent ==
    /\ wire # <<>>
    /\ wire' = Tail(wire)
    /\ UNCHANGED <<linkvars, lock, inbuf, pc, op, calls, mainvars, cmdvars, ret, retv>>

----------------------------------------------------------------------------
\* CommandSet and TransactionExecutor

\* a command is called: lines 189, 212/234, 223, 234, 244, 257, 267 build
\* the hex string and call transmit
CallCommand(t, c) ==
    /\ Begin(t, c)
    /\ \E epoch \in Epochs, values \in ConfigInputs, state \in BOOLEAN :
         /\ cmd' = [cmd EXCEPT ![t] = FirstCmd(c, epoch, values, state)]
         /\ arg' = [arg EXCEPT ![t] = IF c = "set_system_config" THEN values ELSE <<>>]
    /\ size' = [size EXCEPT ![t] = FirstSize(c)]
    /\ stage' = [stage EXCEPT ![t] = IF c = "set_system_config" THEN 1 ELSE 0]
    /\ pc' = [pc EXCEPT ![t] = "tx_check"]
    /\ UNCHANGED <<linkvars, iovars, mainvars, txr, rx, xch, ret, retv>>

\* transmit without the test of line 103
TxCheckNoTest(t) ==
    /\ pc[t] = "tx_check"
    /\ pc' = [pc EXCEPT ![t] = "tx_acq"]
    /\ UNCHANGED txr
    /\ UNCHANGED <<linkvars, iovars, mainvars, op, calls, stage, arg, xch, cmd, size, rx, ret, retv>>

\* transmit, lines 103-105: the command goes on to receive whatever
\* transmit returned
TxCheck(t) ==
    /\ pc[t] = "tx_check"
    /\ IF ~open
         THEN /\ txr' = [txr EXCEPT ![t] = -1]
              /\ pc' = [pc EXCEPT ![t] = "rx_check"]
         ELSE /\ pc' = [pc EXCEPT ![t] = "tx_acq"]
              /\ UNCHANGED txr
    /\ UNCHANGED <<linkvars, iovars, mainvars, op, calls, stage, arg, xch, cmd, size, rx, ret, retv>>

\* transmit entering its section without waiting for _TaskLock to be free
TxAcquireNoWait(t) ==
    /\ pc[t] = "tx_acq"
    /\ lock' = t
    /\ pc' = [pc EXCEPT ![t] = "tx_write"]
    /\ UNCHANGED <<linkvars, inbuf, wire, mainvars, op, calls, cmdvars, ret, retv>>

\* transmit, line 107
TxAcquire(t) ==
    /\ pc[t] = "tx_acq"
    /\ lock = 0
    /\ lock' = t
    /\ pc' = [pc EXCEPT ![t] = "tx_write"]
    /\ UNCHANGED <<linkvars, inbuf, wire, mainvars, op, calls, cmdvars, ret, retv>>

\* what port.write can do: write the frame, report zero bytes, or raise
\* OSError; a closed handle raises PortNotOpenError (an OSError)
WriteOutcomes == IF port.is_open THEN {"ok", "zero", "fault"} ELSE {"fault"}

\* transmit writing the command without the checksum of line 109
TxWriteNoSum(t) ==
    /\ pc[t] = "tx_write"
    /\ lock' = 0
    /\ IF checksum(cmd[t]) = OverflowError
         THEN /\ Finish(t, "OverflowError", <<>>)
              /\ UNCHANGED <<wire, txr>>
         ELSE \E command \in {cmd[t]}, o \in WriteOutcomes :
              LET frame == FromHex(command) IN
                   /\ IF o = "ok"
                        THEN /\ wire' = Append(wire, [own |-> t, data |-> frame])
                             /\ txr' = [txr EXCEPT ![t] = Len(frame)]
                        ELSE /\ txr' = [txr EXCEPT ![t] = -1]
                             /\ UNCHANGED wire
                   /\ pc' = [pc EXCEPT ![t] = "rx_check"]
                   /\ UNCHANGED <<ret, retv>>
    /\ UNCHANGED <<linkvars, inbuf, mainvars, op, calls, stage, arg, xch, cmd, size, rx>>

\* transmit, lines 108-119, leaving the with block
TxWrite(t) ==
    /\ pc[t] = "tx_write"
    /\ lock' = 0
    /\ IF checksum(cmd[t]) = OverflowError
         THEN /\ Finish(t, "OverflowError", <<>>)
              /\ UNCHANGED <<wire, txr>>
         ELSE \E command \in {cmd[t] \o checksum(cmd[t])}, o \in WriteOutcomes :
              LET frame == FromHex(command) IN
                   /\ IF o = "ok"
                        THEN /\ wire' = Append(wire, [own |-> t, data |-> frame])
                             /\ txr' = [txr EXCEPT ![t] = Len(frame)]
                        ELSE /\ txr' = [txr EXCEPT ![t] = -1]
                             /\ UNCHANGED wire
                   /\ pc' = [pc EXCEPT ![t] = "rx_check"]
                   /\ UNCHANGED <<ret, retv>>
    /\ UNCHANGED <<linkvars, inbuf, mainvars, op, calls, stage, arg, xch, cmd, size, rx>>

\* receive, lines 151-153
RxCheck(t) ==
    /\ pc[t] = "rx_check"
    /\ IF ~open
         THEN /\ rx' = [rx EXCEPT ![t] = <<>>]
              /\ pc' = [pc EXCEPT ![t] = "decode"]
         ELSE /\ pc' = [pc EXCEPT ![t] = "rx_acq"]
              /\ UNCHANGED rx
    /\ UNCHANGED <<linkvars, iovars, mainvars, op, calls, stage, arg, xch, cmd, size, txr, ret, retv>>

\* receive, line 155
RxAcquire(t) ==
    /\ pc[t] = "rx_acq"
    /\ lock = 0
    /\ lock' = t
    /\ pc' = [pc EXCEPT ![t] = "rx_wait"]
    /\ UNCHANGED <<linkvars, inbuf, wire, mainvars, op, calls, cmdvars, ret, retv>>

\* what reading port.in_waiting can do: on an open handle give the count
\* or raise OSError; on a closed handle raise OSError (win32) or TypeError
\* (posix, the file descriptor is None)
WaitOutcomes == IF port.is_open THEN {"count", "OSError"} ELSE {"OSError", "TypeError"}

\* wait_for_bytes, lines 131-139, called at line 157, for one result of the
\* poll: the loop goes on until enough bytes are waiting (a poll that finds
\* too few changes nothing); an exception of the poll leaves receive
RxWaitOn(t, o) ==
    /\ pc[t] = "rx_wait"
    /\ o \in WaitOutcomes
    /\ CASE o = "count" ->
              /\ Len(inbuf) >= size[t]
              /\ pc' = [pc EXCEPT ![t] = "rx_read"]
              /\ UNCHANGED <<lock, rx, ret, retv>>
         [] o = "OSError" ->
              /\ lock' = 0
              /\ rx' = [rx EXCEPT ![t] = <<>>]
              /\ pc' = [pc EXCEPT ![t] = "decode"]
              /\ UNCHANGED <<ret, retv>>
         [] o = "TypeError" ->
              /\ lock' = 0
              /\ Finish(t, "TypeError", <<>>)
              /\ UNCHANGED rx
    /\ UNCHANGED <<linkvars, inbuf, wire, mainvars, op, calls, stage, arg, xch, cmd, size, txr>>

RxWait(t) == \E o \in {"count", "OSError", "TypeError"} : RxWaitOn(t, o)

\* what port.read can do: return the bytes waiting, up to size, or raise
\* OSError; a closed handle raises PortNotOpenError (an OSError)
ReadOutcomes == IF port.is_open THEN {"ok", "fault"} ELSE {"fault"}

\* receive keeping _TaskLock when port.read raises
RxReadKeepsLock(t) ==
    /\ pc[t] = "rx_read"
    /\ \E o \in ReadOutcomes :
         IF o = "ok"
           THEN LET got == Take(inbuf, size[t])
                IN /\ rx' = [rx EXCEPT ![t] = got]
                   /\ inbuf' = Drop(inbuf, size[t])
                   /\ lock' = 0
           ELSE /\ rx' = [rx EXCEPT ![t] = <<>>]
                /\ UNCHANGED <<inbuf, lock>>
    /\ pc' = [pc EXCEPT ![t] = "decode"]
    /\ UNCHANGED <<linkvars, wire, mainvars, op, calls, stage, arg, xch, cmd, size, txr, ret, retv>>

\* receive, lines 159-165, leaving the with block
RxRead(t) ==
    /\ pc[t] = "rx_read"
    /\ lock' = 0
    /\ \E o \in ReadOutcomes :
         IF o = "ok"
           THEN LET got == Take(inbuf, size[t])
                IN /\ rx' = [rx EXCEPT ![t] = got]
                   /\ inbuf' = Drop(inbuf, size[t])
           ELSE /\ rx' = [rx EXCEPT ![t] = <<>>]
                /\ UNCHANGED inbuf
    /\ pc' = [pc EXCEPT ![t] = "decode"]
    /\ UNCHANGED <<linkvars, wire, mainvars, op, calls, stage, arg, xch, cmd, size, txr, ret, retv>>

\* the nine integers read one byte later than lines 193-203 read them
ConfigListShifted(bs) == [i \in 1..9 |-> FromBytesLE(Slice(bs, 4 * i + 1, 4 * i + 5))]

\* the nine integers of lines 193-203
ConfigList(bs) == [i \in 1..9 |-> FromBytesLE(Slice(bs, 4 * i, 4 * i + 4))]

\* the ten unpacked words of lines 271-282, as their bit patterns
DataList(bs) == [i \in 1..10 |-> FromBytesLE(Slice(bs, 4 * i, 4 * i + 4))]

\* the commands with lines 245 and 258 testing the response byte at offset 3
DecodeByte3(t) ==
    /\ pc[t] = "decode"
    /\ LET rsp == Vals(rx[t]) IN
       CASE op[t] = "get_system_config" ->
              /\ IF rsp = <<>>
                   THEN Finish(t, "[]", <<>>)
                   ELSE Finish(t, "list", ConfigList(rsp))
              /\ UNCHANGED <<stage, cmd, size, xch>>
         [] op[t] = "set_system_config" /\ stage[t] = 1 ->
              /\ stage' = [stage EXCEPT ![t] = 2]
              /\ cmd' = [cmd EXCEPT ![t] = HdrSetConfig \o get_config_hex_string(arg[t])]
              /\ size' = [size EXCEPT ![t] = 42]
              /\ pc' = [pc EXCEPT ![t] = "tx_check"]
              /\ xch' = [xch EXCEPT ![t] = <<cmd[t], txr[t], Len(rsp)>>]
              /\ UNCHANGED <<ret, retv>>
         [] op[t] = "set_system_config" /\ stage[t] # 1 ->
              /\ Finish(t, "None", <<>>)
              /\ UNCHANGED <<stage, cmd, size, xch>>
         [] op[t] = "get_epoch_time" ->
              /\ IF rsp = <<>>
                   THEN Finish(t, "'None'", <<>>)
                   ELSE Finish(t, "str", <<FromBytesLE(Slice(rsp, 4, 8))>>)
              /\ UNCHANGED <<stage, cmd, size, xch>>
         [] op[t] = "set_epoch_time" ->
              /\ Finish(t, "None", <<>>)
              /\ UNCHANGED <<stage, cmd, size, xch>>
         [] op[t] \in {"format_sd_card", "set_logging_state"} ->
              /\ IF Len(rsp) < 5
                   THEN Finish(t, "IndexError", <<>>)
                   ELSE Finish(t, IF rsp[4] # 0 THEN "True" ELSE "False", <<>>)
              /\ UNCHANGED <<stage, cmd, size, xch>>
         [] op[t] = "request_data" ->
              /\ IF rsp = <<>>
                   THEN Finish(t, "[]", <<>>)
                   ELSE IF Len(rsp) < 44
                          THEN Finish(t, "struct.error", <<>>)
                          ELSE Finish(t, "list", DataList(rsp))
              /\ UNCHANGED <<stage, cmd, size, xch>>
    /\ UNCHANGED <<linkvars, iovars, mainvars, op, calls, arg, txr, rx>>

\* the command uses what receive returned: lines 191-203, 213-214, 225-228,
\* 235, 245, 258, 269-282
Decode(t) ==
    /\ pc[t] = "decode"
    /\ LET rsp == Vals(rx[t]) IN
       CASE op[t] = "get_system_config" ->
              /\ IF rsp = <<>>
                   THEN Finish(t, "[]", <<>>)
                   ELSE Finish(t, "list", ConfigList(rsp))
              /\ UNCHANGED <<stage, cmd, size, xch>>
         [] op[t] = "set_system_config" /\ stage[t] = 1 ->
              /\ stage' = [stage EXCEPT ![t] = 2]
              /\ cmd' = [cmd EXCEPT ![t] = HdrSetConfig \o get_config_hex_string(arg[t])]
              /\ size' = [size EXCEPT ![t] = 42]
              /\ pc' = [pc EXCEPT ![t] = "tx_check"]
              /\ xch' = [xch EXCEPT ![t] = <<cmd[t], txr[t], Len(rsp)>>]
              /\ UNCHANGED <<ret, retv>>
         [] op[t] = "set_system_config" /\ stage[t] # 1 ->
              /\ Finish(t, "None", <<>>)
              /\ UNCHANGED <<stage, cmd, size, xch>>
         [] op[t] = "get_epoch_time" ->
              /\ IF rsp = <<>>
                   THEN Finish(t, "'None'", <<>>)
                   ELSE Finish(t, "str", <<FromBytesLE(Slice(rsp, 4, 8))>>)
              /\ UNCHANGED <<stage, cmd, size, xch>>
         [] op[t] = "set_epoch_time" ->
              /\ Finish(t, "None", <<>>)
              /\ UNCHANGED <<stage, cmd, size, xch>>
         [] op[t] \in {"format_sd_card", "set_logging_state"} ->
              /\ IF Len(rsp) < 5
                   THEN Finish(t, "IndexError", <<>>)
                   ELSE Finish(t, IF rsp[5] # 0 THEN "True" ELSE "False", <<>>)
              /\ UNCHANGED <<stage, cmd, size, xch>>
         [] op[t] = "request_data" ->
              /\ IF rsp = <<>>
                   THEN Finish(t, "[]", <<>>)
                   ELSE IF Len(rsp) < 44
                          THEN Finish(t, "struct.error", <<>>)
                          ELSE Finish(t, "list", DataList(rsp))
              /\ UNCHANGED <<stage, cmd, size, xch>>
    /\ UNCHANGED <<linkvars, iovars, mainvars, op, calls, arg, txr, rx>>

\* the caller takes the result; the thread is free for its next call
Return(t) ==
    /\ pc[t] = "done"
    /\ pc' = [pc EXCEPT ![t] = "idle"]
    /\ op' = [op EXCEPT ![t] = "none"]
    /\ ret' = [ret EXCEPT ![t] = "none"]
    /\ retv' = [retv EXCEPT ![t] = <<>>]
    /\ stage' = [stage EXCEPT ![t] = 0]
    /\ arg' = [arg EXCEPT ![t] = <<>>]
    /\ cmd' = [cmd EXCEPT ![t] = <<>>]
    /\ size' = [size EXCEPT ![t] = 0]
    /\ txr' = [txr EXCEPT ![t] = 0]
    /\ rx' = [rx EXCEPT ![t] = <<>>]
    /\ xch' = [xch EXCEPT ![t] = <<>>]
    /\ IF t = Main
         THEN via' = "none" /\ attempt' = 0 /\ acq' = 0 /\ acqd' = FALSE
         ELSE UNCHANGED mainvars
    /\ UNCHANGED <<linkvars, iovars, calls>>

\* the link lifecycle, run by the main thread
Lifecycle ==
    \/ CallConnect
    \/ CallOpenPort
    \/ OpLoop
    \/ OpAcquire
    \/ OpMark
    \/ OpSleep
    \/ Interrupt
    \/ CallClosePort
    \/ CpClose
    \/ CpFlag

\* the steps of a command that thread t has called
Transact(t) ==
    \/ TxCheck(t)
    \/ TxAcquire(t)
    \/ TxWrite(t)
    \/ RxCheck(t)
    \/ RxAcquire(t)
    \/ RxWait(t)
    \/ RxRead(t)
    \/ Decode(t)
    \/ Return(t)

\* the commands that the concurrent callers draw from: an exchange of
\* 42 bytes and an exchange of 10 bytes
ConcCommands == {"get_system_config", "get_epoch_time"}

\* two threads call commands while the main thread also runs the lifecycle
Next ==
    \/ Lifecycle
    \/ \E t \in Callers, c \in ConcCommands : CallCommand(t, c)
    \/ \E t \in Callers : Transact(t)
    \/ DeviceReply(1)
    \/ DeviceSilent

Spec == Init /\ [][Next]_vars

\* one thread runs the lifecycle and every command, one call after another
NextSeq ==
    \/ Lifecycle
    \/ \E c \in Commands : CallCommand(Main, c)
    \/ Transact(Main)
    \/ \E v \in DevVals : DeviceReply(v)
    \/ DeviceSilent

SpecSeq == Init /\ [][NextSeq]_vars

\* the lifecycle alone
NextLink ==
    \/ Lifecycle
    \/ Return(Main)

SpecLink == Init /\ [][NextLink]_vars

\* the state in which connect has returned True: lines 43 and 71
InitOpen ==
    /\ portname \in PortNames \ {NoPort}
    /\ port = [is_open |-> TRUE, src |-> "open_port"]
    /\ open = TRUE
    /\ lock = 0
    /\ inbuf = <<>>
    /\ wire = <<>>
    /\ pc = [t \in Callers |-> "idle"]
    /\ op = [t \in Callers |-> "none"]
    /\ via = "none"
    /\ attempt = 0
    /\ acq = 0
    /\ acqd = FALSE
    /\ stage = [t \in Callers |-> 0]
    /\ arg = [t \in Callers |-> <<>>]
    /\ cmd = [t \in Callers |-> <<>>]
    /\ size = [t \in Callers |-> 0]
    /\ txr = [t \in Callers |-> 0]
    /\ rx = [t \in Callers |-> <<>>]
    /\ xch = [t \in Callers |-> <<>>]
    /\ calls = [life |-> 0, cmds |-> 0]
    /\ ret = [t \in Callers |-> "none"]
    /\ retv = [t \in Callers |-> <<>>]

\* two threads call commands on the connected link while the main thread
\* may close it and connect again
SpecOpen == InitOpen /\ [][Next]_vars

\* n bytes of value b
Rep(n, b) == [i \in 1..n |-> b]

\* the payloads that checksum is applied to: short ones and ones long enough
\* for a sum that needs more than 16 bits
PayloadLens == 0..3 \cup (MaxPayload - 5)..MaxPayload
PayloadBytes == {0, 1, 127, 128, 221, 254, 255}
Payloads == {Rep(n, b) : n \in PayloadLens, b \in PayloadBytes} \cup {<<221, 3>>}

\* a caller is about to call checksum with the hex string of a payload
InitSum ==
    /\ portname = NoPort
    /\ port = [is_open |-> FALSE, src |-> "init"]
    /\ open = FALSE
    /\ lock = 0
    /\ inbuf = <<>>
    /\ wire = <<>>
    /\ pc = [t \in Callers |-> IF t = Main THEN "checksum" ELSE "idle"]
    /\ op = [t \in Callers |-> IF t = Main THEN "checksum" ELSE "none"]
    /\ via = "none"
    /\ attempt = 0
    /\ acq = 0
    /\ acqd = FALSE
    /\ stage = [t \in Callers |-> 0]
    /\ arg = [t \in Callers |-> <<>>]
    /\ \E p \in Payloads : cmd = [t \in Callers |-> IF t = Main THEN Hex(p) ELSE <<>>]
    /\ size = [t \in Callers |-> 0]
    /\ txr = [t \in Callers |-> 0]
    /\ rx = [t \in Callers |-> <<>>]
    /\ xch = [t \in Callers |-> <<>>]
    /\ calls = [life |-> 0, cmds |-> 0]
    /\ ret = [t \in Callers |-> "none"]
    /\ retv = [t \in Callers |-> <<>>]

\* checksum, lines 87-91, returns its hex string or raises
CallChecksum ==
    /\ pc[Main] = "checksum"
    /\ IF checksum(cmd[Main]) = OverflowError
         THEN Finish(Main, "OverflowError", <<>>)
         ELSE Finish(Main, "str", checksum(cmd[Main]))
    /\ UNCHANGED <<linkvars, iovars, mainvars, cmdvars, op, calls>>

SpecSum == InitSum /\ [][CallChecksum]_vars

\* the steps a running thread takes by itself: the interpreter keeps running
\* every thread, while the transport need not fail and the device need not
\* answer
Runs(t) ==
    \/ TxCheck(t)
    \/ TxAcquire(t)
    \/ TxWrite(t)
    \/ RxCheck(t)
    \/ RxAcquire(t)
    \/ RxWaitOn(t, "count")
    \/ RxRead(t)
    \/ Decode(t)
    \/ Return(t)

RunsLifecycle == OpLoop \/ OpAcquire \/ OpMark \/ OpSleep \/ CpClose \/ CpFlag

\* the sequential runs in which every started call keeps running
SpecLive == Init /\ [][NextSeq]_vars /\ WF_vars(Runs(Main)) /\ WF_vars(RunsLifecycle)

----------------------------------------------------------------------------
\* the value a command returns when its exchange did not complete
Sentinel(c) ==
    CASE c \in {"get_system_config", "request_data"} -> "[]"
      [] c = "get_epoch_time" -> "'None'"
      [] c \in {"format_sd_card", "set_logging_state"} -> "False"
      [] c \in {"set_system_config", "set_epoch_time"} -> "None"

Exceptions == {"IndexError", "struct.error", "TypeError", "OverflowError", "KeyboardInterrupt"}

\* thread t has written its frame and its matching receive has not returned
InFlight(t) == txr[t] > 0 /\ pc[t] \in {"rx_check", "rx_acq", "rx_wait", "rx_read"}

\* C1: two callers running full commands on the open link are never
\* interleaved: no caller's frame is written while another caller's frame
\* still waits for its matching receive, and no receive returns bytes the
\* device sent in answer to another caller's frame.
C1_NoInterleaving ==
    /\ \A a \in Callers, b \in Callers : a # b => ~(InFlight(a) /\ InFlight(b))
    /\ \A t \in Callers : \A i \in 1..Len(rx[t]) : Own(rx[t][i]) = t

\* C2: a command whose receive returned the empty sequence, the link being
\* Closed or the read having failed, returns its failure value and raises
\* nothing.
C2_FailureValueNoRaise ==
    \A t \in Callers :
        (pc[t] = "done" /\ op[t] \in Commands /\ rx[t] = <<>>)
            => (ret[t] \notin Exceptions /\ ret[t] = Sentinel(op[t]))

\* C3: a command whose transmit returned -1 on the Open link does not wait
\* for or read a response, and returns its failure value.
C3_NoReceiveAfterFailedTransmit ==
    \A t \in Callers :
        (open /\ op[t] \in Commands /\ txr[t] = -1)
            => /\ pc[t] \notin {"rx_acq", "rx_wait", "rx_read"}
               /\ pc[t] = "done" => ret[t] = Sentinel(op[t])

\* C4: with the link Closed, transmit returns -1 and receive returns the
\* empty sequence in one step that neither takes the transaction lock nor
\* writes to, queries or reads the transport.
C4_ClosedFailsFast ==
    [][\A t \in Callers :
         /\ (~open /\ pc[t] = "tx_check" /\ pc'[t] # "tx_check")
              => (txr'[t] = -1 /\ pc'[t] = "rx_check"
                  /\ UNCHANGED <<lock, inbuf, wire, port>>)
         /\ (~open /\ pc[t] = "rx_check" /\ pc'[t] # "rx_check")
              => (rx'[t] = <<>> /\ pc'[t] = "decode"
                  /\ UNCHANGED <<lock, inbuf, wire, port>>)]_vars

\* a command ran transmit and receive on a link that was never opened
C4_Witness ==
    \E t \in Callers :
        /\ calls.life = 0 /\ ~open /\ lock = 0 /\ wire = <<>>
        /\ pc[t] = "decode" /\ txr[t] = -1 /\ rx[t] = <<>>

\* C5: when every attempt to acquire the handle fails, open makes exactly 10
\* attempts and returns False with the link Closed.
C5_ExhaustedOpenReturnsFalse ==
    (pc[Main] = "done" /\ op[Main] \in {"connect", "open_port"}
       /\ ~acqd /\ attempt > MaxAttempts /\ retv[Main] # <<"interrupted">>)
        => (acq = MaxAttempts /\ ~open /\ ret[Main] = "False")

\* C6: when an attempt acquires an open handle, open leaves the link Open
\* and returns True.
C6_SuccessReturnsTrue ==
    (pc[Main] = "done" /\ op[Main] \in {"connect", "open_port"}
       /\ acqd /\ port.is_open /\ retv[Main] # <<"interrupted">>)
        => (open /\ ret[Main] = "True")

\* C7: a call of open makes at most 10 attempts to acquire the handle,
\* whatever the transport does on each of them.
C7_AtMostTenAttempts == InOpenPort => acq <= MaxAttempts

Closed2 == portname # NoPort /\ port.src = "open_port" /\ ~port.is_open /\ ~open

\* C9: close_port called with the link Open releases the handle and leaves
\* the link Closed; called with the link Closed it returns at once and
\* leaves the handle and the link as they are; after a close, transmit
\* returns -1 and receive returns the empty sequence.
C9_CloseIdempotent ==
    [][/\ (pc[Main] = "idle" /\ op'[Main] = "close_port" /\ ~open)
            => (pc'[Main] = "done" /\ ~open' /\ port' = port /\ inbuf' = inbuf)
       /\ (pc[Main] = "idle" /\ op'[Main] = "close_port" /\ open)
            => (pc'[Main] = "cp_close" /\ port' = port)
       /\ (via = "close" /\ pc[Main] # "done" /\ pc'[Main] = "done")
            => (~open' /\ ~port'.is_open)
       /\ \A t \in Callers :
            /\ (Closed2 /\ pc[t] = "tx_check" /\ pc'[t] # "tx_check") => txr'[t] = -1
            /\ (Closed2 /\ pc[t] = "rx_check" /\ pc'[t] # "rx_check") => rx'[t] = <<>>]_vars

\* a command ran transmit and receive after close_port had closed the link
C9_Witness ==
    /\ Closed2
    /\ pc[Main] = "decode" /\ txr[Main] = -1 /\ rx[Main] = <<>>

\* C10: connect interrupted by KeyboardInterrupt returns False with the
\* link Closed and with the handle it acquired released.
C10_InterruptReleases ==
    (pc[Main] = "done" /\ op[Main] = "connect" /\ retv[Main] = <<"interrupted">>)
        => (ret[Main] = "False" /\ ~open /\ (acqd => ~port.is_open))

\* thread t is inside receive on the link it found Open
InReceive(t) == pc[t] \in {"rx_acq", "rx_wait", "rx_read"}

\* C11: every receive call on an Open link eventually returns, also when
\* the device never sends the bytes it waits for.
C11_ReceiveReturns == InReceive(Main) ~> ~InReceive(Main)

\* the configuration frame of the running set_system_config call is on the wire
ConfigSent(t) ==
    /\ op[t] = "set_system_config"
    /\ stage[t] = 2
    /\ pc[t] \in {"rx_check", "rx_acq", "rx_wait", "rx_read", "decode", "done"}
    /\ txr[t] > 0

\* the exchange that set_epoch_time completes: the 11-byte frame with the
\* header dd040b0001 written and the 10-byte acknowledgement received
Stamped(t) ==
    /\ xch[t] # <<>>
    /\ Take(xch[t][1], 10) = HdrSetEpoch
    /\ xch[t][2] = 11
    /\ xch[t][3] = 10

\* C12: whenever set_system_config has transmitted the configuration frame,
\* the same call has before that transmitted the set-epoch-time frame and
\* received its 10-byte acknowledgement.
C12_ClockStampedFirst == ConfigSent(Main) => Stamped(Main)

\* receive has returned to the command that called it
Received(t) == pc[t] = "decode"

\* C13: what receive(n) returns has length n or is empty.
C13_ExactLengthOrEmpty ==
    \A t \in Callers : Received(t) => Len(rx[t]) \in {0, size[t]}

\* checksum has returned or raised
ChecksumDone == op[Main] = "checksum" /\ pc[Main] = "done"

\* the two little-endian bytes of the byte sum modulo 65536, as a hex string
RECURSIVE Total(_, _, _)
Total(p, a, b) ==
    IF a > b THEN 0
    ELSE IF a = b THEN p[a]
    ELSE Total(p, a, (a + b) \div 2) + Total(p, (a + b) \div 2 + 1, b)

WrapSum(p) ==
    LET s == Total(p, 1, Len(p)) % 65536
    IN Hex(<<s % 256, s \div 256>>)

\* C14: checksum of a payload is the sum of its bytes modulo 65536 as two
\* little-endian bytes, without an overflow error for sums above 65535.
C14_ChecksumWraps ==
    ChecksumDone =>
        /\ ret[Main] = "str"
        /\ retv[Main] = WrapSum(FromHex(cmd[Main]))

\* the frame of a payload: the payload and the two little-endian bytes of
\* its byte sum
FrameOf(payload) ==
    LET s == Total(payload, 1, Len(payload)) % 65536
    IN payload \o <<s % 256, s \div 256>>

\* C15: the step in which transmit leaves its lock-protected section on a
\* link it found Open either puts exactly one frame, the payload followed by
\* its checksum, on the transport and returns the frame's length, or puts
\* nothing there and returns -1; it raises nothing.
C15_TransmitWritesFrame ==
    [][\A t \in Callers :
         (pc[t] = "tx_write" /\ pc'[t] # "tx_write") =>
             /\ pc'[t] = "rx_check"
             /\ \/ /\ wire' = Append(wire, [own |-> t, data |-> FrameOf(FromHex(cmd[t]))])
                   /\ txr'[t] = Len(FromHex(cmd[t])) + 2
                \/ /\ wire' = wire
                   /\ txr'[t] = -1]_vars

\* transmit("dd03070000") has written the 7 bytes dd 03 07 00 00 e7 00
C15_Witness ==
    /\ pc[Main] = "rx_check"
    /\ txr[Main] = 7
    /\ wire # <<>>
    /\ wire[Len(wire)].data = <<221, 3, 7, 0, 0, 231, 0>>

\* the little-endian unsigned 32-bit integer at byte offset off of bs, as
\* its halves <<high, low>>
U32At(bs, off) == <<bs[off + 3] + 256 * bs[off + 4], bs[off + 1] + 256 * bs[off + 2]>>

\* C16: get_system_config transmits the header dd03070000 and from a
\* response of 42 bytes returns the nine little-endian 32-bit integers at
\* the byte offsets 4, 8, .., 36, in this order.
C16_ConfigDecoded ==
    \A t \in Callers :
        (op[t] = "get_system_config" /\ pc[t] = "done" /\ Len(rx[t]) = 42) =>
            /\ cmd[t] = <<13, 13, 0, 3, 0, 7, 0, 0, 0, 0>>
            /\ ret[t] = "list"
            /\ Len(retv[t]) = 9
            /\ \A i \in 1..9 : retv[t][i] = U32At(Vals(rx[t]), 4 * i)

\* the response that carries the values 1..9 is returned as [1, .., 9]
C16_Witness ==
    /\ op[Main] = "get_system_config"
    /\ pc[Main] = "done"
    /\ Len(rx[Main]) = 42
    /\ retv[Main] = [i \in 1..9 |-> <<0, i>>]

\* C17: format_sd_card transmits the header dd050600, receives 7 bytes and,
\* from a response of 7 bytes, returns True if the byte at offset 4 is not
\* zero and False if it is zero.
C17_FormatResult ==
    \A t \in Callers :
        (op[t] = "format_sd_card" /\ pc[t] = "done" /\ Len(rx[t]) = 7) =>
            /\ cmd[t] = <<13, 13, 0, 5, 0, 6, 0, 0>>
            /\ size[t] = 7
            /\ ret[t] = IF Val(rx[t][5]) # 0 THEN "True" ELSE "False"

\* a response whose byte at offset 4 is 1 has made format_sd_card return True
C17_Witness ==
    /\ op[Main] = "format_sd_card"
    /\ pc[Main] = "done"
    /\ Len(rx[Main]) = 7
    /\ Val(rx[Main][5]) = 1
    /\ ret[Main] = "True"

\* a response whose byte at offset 4 is 0 has made format_sd_card return False
FormatFalse ==
    /\ op[Main] = "format_sd_card"
    /\ pc[Main] = "done"
    /\ Len(rx[Main]) = 7
    /\ Val(rx[Main][5]) = 0
    /\ ret[Main] = "False"

\* caller t is inside the with block of transmit (lines 108-119) or of
\* receive (lines 156-165)
InSection(t) == pc[t] \in {"tx_write", "rx_wait", "rx_read"}

\* C18: at most one caller is inside the lock-protected section of transmit
\* or receive, and it is the caller that holds the lock; so no frame is
\* written while another caller waits for or reads bytes.
C18_MutualExclusion ==
    /\ \A a \in Callers, b \in Callers : a # b => ~(InSection(a) /\ InSection(b))
    /\ \A t \in Callers : InSection(t) => lock = t

\* one caller waits for bytes inside its section while the other caller
\* stands before the section of its transmit
C18_Witness ==
    \E a \in Callers, b \in Callers :
        /\ a # b
        /\ pc[a] = "rx_wait"
        /\ pc[b] = "tx_acq"

\* C19: the lock is held only by a caller that is inside the section of its
\* transmit or receive: every way out of the section releases it, so it is
\* free whenever no caller is inside.
C19_LockReleased ==
    /\ lock # 0 => InSection(lock)
    /\ (\A t \in Callers : ~InSection(t)) => lock = 0

\* a receive whose wait or read failed on the Open link has returned the
\* empty sequence, and the other caller has taken the lock after it
C19_Witness ==
    \E a \in Callers, b \in Callers :
        /\ a # b
        /\ pc[a] = "decode"
        /\ txr[a] > 0
        /\ rx[a] = <<>>
        /\ open
        /\ InSection(b)

\* caller t uses the handle in this step: port.write (line 110), the
\* port.in_waiting that ends the wait (line 131) or port.read (line 159)
Touches(t) == InSection(t) /\ pc'[t] # pc[t]

\* C20: the handle is written to, queried and read only while the link is
\* Open and close_port has not released the handle.
C20_NoTouchWhileClosed ==
    [][\A t \in Callers : Touches(t) => (open /\ port.is_open)]_vars

\* the main thread is inside connect, open_port or close_port
LinkCallRunning == op[Main] \in {"connect", "open_port", "close_port"}

\* C21: from construction on, whenever no open or close call is in progress
\* the open flag is true exactly when the client's serial handle is open.
C21_FlagMatchesHandle == ~LinkCallRunning => (open <=> port.is_open)

============================================================================
